---------------------------- MODULE Spec2Model ----------------------------
(***************************************************************************)
(* Enrollment service (src/enrollment): the class roster kept in DynamoDB  *)
(* (enrollment_class / enrollment_user), the waitlist index kept in Redis  *)
(* (enrollment_redis.Waitlist), the process-wide FREEZE flag, and the      *)
(* relational enrollment tables still used by the waitlist-drop and        *)
(* instructor-drop endpoints.                                              *)
(***************************************************************************)
EXTENDS Integers, Sequences, FiniteSets, TLC

(***************************************************************************)
(* Program constants                                                       *)
(***************************************************************************)
\* enrollment_routes.py:22
MAX_WAITLIST == 3
\* enrollment_routes.py:291, the literal added to max_enroll
WAITLIST_BOUND == 15
\* enrollment_routes.py:147, the literal of the listing query
LISTING_BOUND == 45
\* enrollment_test.py:66 (every sample class), enrollment_test.py:375
SEED_MAX_ENROLL == 30

(***************************************************************************)
(* Bounds of the model                                                     *)
(***************************************************************************)
\* requests that write a roster (enroll appends, relational drops), in all
MaxWrites == 2

(***************************************************************************)
(* Sample data (enrollment_test.py): six of the sample classes, by their   *)
(* current_enroll: 28 (open), 30 (full), 44 (waitlist nearly full), 30     *)
(* (full), 32 and 35 (full, with a waitlist).  Every sample class has      *)
(* max_enroll = 30.                                                        *)
(***************************************************************************)
sample_classes == <<28, 30, 44, 30, 32, 35>>

Classes == 1..Len(sample_classes)

max_enroll == [c \in Classes |-> SEED_MAX_ENROLL]

\* the student the seed places at position i of class c (distinct ids per class)
SeedStudent(c, i) == 100 * c + i

\* the students that issue requests: 1, the seed's test student, 2 and 3,
\* students on no waitlist; the sequential requests come from 1 and 2
Actors == {1, 2}
ConcActors == {1, 2, 3}

\* instructor_id of sample class c (enrollment_test.py:68, 501, 502, ...)
InstructorOf(c) == 500 + c

sample_users ==
    ConcActors \cup UNION {{SeedStudent(c, i) : i \in 1..sample_classes[c]} : c \in Classes}

\* ids that name no class and no student
NoClass == 0
NoStudent == 0

\* the classes on whose waitlists the seed puts its test student (student 1):
\* a class of 32 and two classes of 30, as add_waitlists(4, 1, 3), (6, 1, 1),
\* (8, 1, 1)
TestClasses == {5, 2, 4}

(***************************************************************************)
(* State                                                                   *)
(***************************************************************************)
VARIABLES
    current_enroll,     \* DynamoDB class item: current_enroll
    enrolled,           \* DynamoDB class item: enrolled (list of student ids)
    dropped,            \* DynamoDB class item: dropped (list of student ids)
    waitlist_count,     \* DynamoDB user items: waitlist_count, where set
    class_waitlist,     \* Redis sorted set class:{c}:waitlist, member -> score
    student_waitlists,  \* Redis hashes student:{s}:waitlists, field -> value
    FREEZE,             \* module global of enrollment_routes
    sql_class,          \* table class: id -> current_enroll, max_enroll
    sql_enrollment,     \* table enrollment: class_id -> student_id -> placement
    sql_waitlist,       \* table waitlist: student_id -> waitlist_count
    handlers,           \* the requests in flight: each handler's position and locals
    last,               \* the last request served and its response
    listing             \* the body of the last class listing returned

dynamo == <<current_enroll, enrolled, dropped, waitlist_count>>
redis == <<class_waitlist, student_waitlists>>
sql == <<sql_class, sql_enrollment, sql_waitlist>>

vars == <<dynamo, redis, FREEZE, sql, handlers, last, listing>>

(***************************************************************************)
(* Python list and key-value helpers                                       *)
(***************************************************************************)
Range(s) == {s[i] : i \in DOMAIN s}

\* x in list
In(x, s) == x \in Range(s)

\* list.index(x) + 1, for x in list
IndexOf(x, s) == CHOOSE i \in DOMAIN s : s[i] = x /\ \A j \in 1..(i - 1) : s[j] # x

\* a removal that leaves the list as it is
ListRemove_Nothing(s, x) == s

\* a removal that fills the hole with the last element of the list
ListRemove_MoveLast(s, x) ==
    LET k == IndexOf(x, s)
    IN [i \in 1..(Len(s) - 1) |-> IF i = k THEN s[Len(s)] ELSE s[i]]

\* list.remove(x): drops the first occurrence only
ListRemove(s, x) ==
    LET k == IndexOf(x, s)
    IN [i \in 1..(Len(s) - 1) |-> IF i < k THEN s[i] ELSE s[i + 1]]

EmptyMap == [x \in {} |-> 0]

\* m with key k set to v (zadd / hset / SET attribute)
Put(m, k, v) == [x \in (DOMAIN m) \cup {k} |-> IF x = k THEN v ELSE m[x]]

\* m without key k (zrem / hdel / DELETE)
Del(m, k) == [x \in (DOMAIN m) \ {k} |-> m[x]]

\* m[k], or d where k is absent
Get(m, k, d) == IF k \in DOMAIN m THEN m[k] ELSE d

(***************************************************************************)
(* Redis reads (enrollment_redis.Waitlist)                                 *)
(***************************************************************************)
\* r.hlen(student:{s}:waitlists)
get_waitlist_count(s) == Cardinality(DOMAIN Get(student_waitlists, s, EmptyMap))

\* r.zrank(class:{c}:waitlist, s) is not None
is_student_on_waitlist(s, c) == s \in DOMAIN Get(class_waitlist, c, EmptyMap)

(***************************************************************************)
(* Initial state: create_database of enrollment_test.py                    *)
(***************************************************************************)
\* the seed fills enrolled with current_enroll consecutive students
SeedEnrolled(c) == [i \in 1..sample_classes[c] |-> SeedStudent(c, i)]

\* sample_enrollments: the placement of each seeded student of class c
sample_enrollments(c) ==
    [s \in {SeedStudent(c, i) : i \in 1..sample_classes[c]} |-> s - 100 * c]

\* placement - 30 for every seeded student at a placement above 30
SeedClassWaitlist(c) ==
    [s \in {x \in DOMAIN sample_enrollments(c) :
                sample_enrollments(c)[x] > SEED_MAX_ENROLL}
        |-> sample_enrollments(c)[s] - SEED_MAX_ENROLL]

\* the placement the seed gives its test student in class c: one past the
\* seeded waitlist of c, as in add_waitlists(4, 1, 3) for a class of 32
TestPlacement(c) ==
    IF sample_classes[c] > SEED_MAX_ENROLL
    THEN sample_classes[c] - SEED_MAX_ENROLL + 1 ELSE 1

\* the Redis content after the seed
InitRedis ==
    /\ class_waitlist =
         [c \in {d \in Classes : d \in TestClasses \/ DOMAIN SeedClassWaitlist(d) # {}}
            |-> IF c \in TestClasses
                THEN Put(SeedClassWaitlist(c), 1, TestPlacement(c))
                ELSE SeedClassWaitlist(c)]
    /\ student_waitlists =
         [s \in {x \in sample_users :
                    \/ x = 1
                    \/ \E c \in Classes : x \in DOMAIN SeedClassWaitlist(c)}
            |-> IF s = 1
                THEN [c \in TestClasses |-> TestPlacement(c)]
                ELSE LET c == CHOOSE d \in Classes : s \in DOMAIN SeedClassWaitlist(d)
                     IN [d \in {c} |-> SeedClassWaitlist(c)[s]]]

\* the seed's dropped lists: sample class 1 starts with students who are not
\* on its roster (dropped=[11,12,13,14]); here student 3 is such a student
SeedDropped(c) == IF c = 1 THEN <<3>> ELSE <<>>

InitDynamo ==
    /\ current_enroll = [c \in Classes |-> sample_classes[c]]
    /\ enrolled = [c \in Classes |-> SeedEnrolled(c)]
    /\ dropped = [c \in Classes |-> SeedDropped(c)]
    /\ waitlist_count = EmptyMap

\* the sample classes whose rows the relational tables hold
SqlClasses == {2, 5}

SqlStudents == UNION {DOMAIN sample_enrollments(c) : c \in SqlClasses}

\* a student's row of table waitlist counts the classes that hold the student
\* at a placement above max_enroll
SqlWaitlistSeed ==
    [s \in SqlStudents |->
        Cardinality({c \in SqlClasses :
            /\ s \in DOMAIN sample_enrollments(c)
            /\ sample_enrollments(c)[s] > max_enroll[c]})]

InitSql ==
    /\ sql_class = [c \in SqlClasses |->
                      [current_enroll |-> sample_classes[c], max_enroll |-> max_enroll[c]]]
    /\ sql_enrollment = [c \in SqlClasses |-> sample_enrollments(c)]
    /\ sql_waitlist = SqlWaitlistSeed

NoRequest == [op |-> "none", student |-> NoStudent, class |-> NoClass, result |-> "none"]

\* the requests each handler of the concurrent runs may be given:
\* (student, class) of an enroll request
ProcRequests ==
    << {<<1, 1>>, <<2, 5>>},
       {<<2, 1>>, <<2, 6>>, <<1, 1>>},
       {<<3, 1>>} >>

Procs == 1..Len(ProcRequests)

\* a handler that has not been given a request
Idle == [pc |-> "idle", student |-> NoStudent, class |-> NoClass,
         new_enrollment |-> 0, get_dropped |-> <<>>, student_enroll |-> <<>>,
         result |-> "none"]

\* no listing returned yet
NoListing == [student |-> NoStudent, waitlist_count |-> 0, Classes |-> {}]

Init ==
    /\ InitDynamo
    /\ InitRedis
    /\ InitSql
    /\ FREEZE = FALSE
    /\ handlers = [p \in Procs |-> Idle]
    /\ last = NoRequest
    /\ listing = NoListing

(***************************************************************************)
(* enroll_student_in_class (enrollment_routes.py:187-303)                  *)
(***************************************************************************)
Response(op, s, c, res) == [op |-> op, student |-> s, class |-> c, result |-> res]

\* the branch taken at lines 285-303, from the values the handler holds
EnrollResult(new_enrollment, max, freeze, count) ==
    IF new_enrollment >= max
    THEN IF ~freeze
         THEN IF count < MAX_WAITLIST /\ new_enrollment < max + WAITLIST_BOUND
              THEN "waitlisted"
              ELSE "max_waitlists"
         ELSE "freeze"
    ELSE "enrolled"

\* SET waitlist_count = if_not_exists(waitlist_count, 0) + 1
IncrementWaitlistCount(wc, s) == Put(wc, s, Get(wc, s, 0) + 1)

\* the existence test without its test of the student
NotFound_ClassOnly(s, c) == c \notin Classes

\* lines 230-232 and 350-352: not student_data or not class_data
NotFound(s, c) == s \notin sample_users \/ c \notin Classes

\* the already-enrolled test looking at the dropped list
AlreadyEnrolled_InDropped(s, c) == In(s, dropped[c])

\* lines 234-243: student_id in item.get('enrolled', [])
AlreadyEnrolled(s, c) == In(s, enrolled[c])

\* an append that puts the student at the head of the list
list_append_AtHead(list, s) == <<s>> \o list

\* lines 257-263: SET enrolled = list_append(enrolled, :student_id)
list_append(list, s) == Append(list, s)

enroll_student_in_class(s, c) ==
    IF NotFound(s, c)
    THEN /\ last' = Response("enroll", s, c, "not_found")
         /\ UNCHANGED <<dynamo, redis, FREEZE, sql, handlers, listing>>
    ELSE IF AlreadyEnrolled(s, c)
    THEN /\ last' = Response("enroll", s, c, "already_enrolled")
         /\ UNCHANGED <<dynamo, redis, FREEZE, sql, handlers, listing>>
    ELSE LET new_enrollment == current_enroll[c] + 1
             res == EnrollResult(new_enrollment, max_enroll[c], FREEZE,
                                 get_waitlist_count(s))
         IN /\ current_enroll' = [current_enroll EXCEPT ![c] = new_enrollment]
            /\ enrolled' = [enrolled EXCEPT ![c] = list_append(@, s)]
            /\ dropped' = IF In(s, dropped[c])
                          THEN [dropped EXCEPT ![c] = ListRemove(@, s)]
                          ELSE dropped
            /\ waitlist_count' = IF res = "waitlisted"
                                 THEN IncrementWaitlistCount(waitlist_count, s)
                                 ELSE waitlist_count
            /\ last' = Response("enroll", s, c, res)
            /\ UNCHANGED <<redis, FREEZE, sql, handlers, listing>>

(***************************************************************************)
(* drop_student_from_class (enrollment_routes.py:307-393)                  *)
(***************************************************************************)
drop_student_from_class(s, c) ==
    IF NotFound(s, c)
    THEN /\ last' = Response("drop", s, c, "not_found")
         /\ UNCHANGED <<dynamo, redis, FREEZE, sql, handlers, listing>>
    ELSE IF ~In(s, enrolled[c]) \/ is_student_on_waitlist(s, c)
    THEN /\ last' = Response("drop", s, c, "not_enrolled")
         /\ UNCHANGED <<dynamo, redis, FREEZE, sql, handlers, listing>>
    ELSE /\ enrolled' = [enrolled EXCEPT ![c] = ListRemove(@, s)]
         /\ dropped' = [dropped EXCEPT ![c] = Append(@, s)]
         /\ last' = Response("drop", s, c, "dropped")
         /\ UNCHANGED <<current_enroll, waitlist_count, redis, FREEZE, sql, handlers, listing>>

(***************************************************************************)
(* freeze_automatic_enrollment (enrollment_routes.py:988-996)              *)
(***************************************************************************)
\* an endpoint that sets the flag and never clears it
freeze_automatic_enrollment_SetOnly ==
    /\ FREEZE' = TRUE
    /\ last' = Response("freeze", NoStudent, NoClass, "frozen")
    /\ UNCHANGED <<dynamo, redis, sql, handlers, listing>>

freeze_automatic_enrollment ==
    /\ FREEZE' = ~FREEZE
    /\ last' = Response("freeze", NoStudent, NoClass,
                        IF FREEZE THEN "unfrozen" ELSE "frozen")
    /\ UNCHANGED <<dynamo, redis, sql, handlers, listing>>

(***************************************************************************)
(* reorder_placement (enrollment_routes.py:53-61)                          *)
(***************************************************************************)
\* UPDATE enrollment SET placement = placement - 1
\*     WHERE class_id = ? AND placement = counter
ShiftRows(rows, counter) ==
    [s \in DOMAIN rows |-> IF rows[s] = counter THEN rows[s] - 1 ELSE rows[s]]

\* the while loop, from counter on, over the rows of one class
RECURSIVE ReorderLoop(_, _, _, _)
ReorderLoop(rows, counter, total_enrolled, placement) ==
    IF counter <= total_enrolled
    THEN ReorderLoop(IF counter > placement THEN ShiftRows(rows, counter) ELSE rows,
                     counter + 1, total_enrolled, placement)
    ELSE rows

\* the row tables the while loop passes through, the first and the last
\* included
RECURSIVE ReorderSteps(_, _, _, _)
ReorderSteps(rows, counter, total_enrolled, placement) ==
    IF counter <= total_enrolled
    THEN {rows} \cup
         ReorderSteps(IF counter > placement THEN ShiftRows(rows, counter) ELSE rows,
                      counter + 1, total_enrolled, placement)
    ELSE {rows}

\* reorder_placement with its UPDATE of the placements not restricted to
\* class_id
reorder_placement_AllClasses(enrollment, class, total_enrolled, placement, class_id) ==
    [enrollment |->
        [d \in DOMAIN enrollment |-> ReorderLoop(enrollment[d], 1, total_enrolled, placement)],
     class |->
        IF class_id \in DOMAIN class
        THEN [class EXCEPT ![class_id].current_enroll = @ - 1]
        ELSE class]

\* reorder_placement without its update of current_enroll
reorder_placement_NoDecrement(enrollment, class, total_enrolled, placement, class_id) ==
    [enrollment |->
        [enrollment EXCEPT ![class_id] = ReorderLoop(@, 1, total_enrolled, placement)],
     class |-> class]

\* reorder_placement with its loop one turn short
reorder_placement_ShortLoop(enrollment, class, total_enrolled, placement, class_id) ==
    [enrollment |->
        [enrollment EXCEPT ![class_id] = ReorderLoop(@, 1, total_enrolled - 1, placement)],
     class |->
        IF class_id \in DOMAIN class
        THEN [class EXCEPT ![class_id].current_enroll = @ - 1]
        ELSE class]

\* the tables class and enrollment after reorder_placement
reorder_placement(enrollment, class, total_enrolled, placement, class_id) ==
    [enrollment |->
        [enrollment EXCEPT ![class_id] = ReorderLoop(@, 1, total_enrolled, placement)],
     class |->
        IF class_id \in DOMAIN class
        THEN [class EXCEPT ![class_id].current_enroll = @ - 1]
        ELSE class]

(***************************************************************************)
(* remove_from_waitlist (enrollment_routes.py:491-551)                     *)
(***************************************************************************)
\* the row of enrollment for (student, class), where there is one
HasRow(s, c) == c \in DOMAIN sql_enrollment /\ s \in DOMAIN sql_enrollment[c]

\* the waitlist_entry query without its test of the placement
WaitlistEntry_AnyPlacement(s, c) ==
    /\ HasRow(s, c)
    /\ c \in DOMAIN sql_class

\* WHERE ... AND enrollment.placement > class.max_enroll
WaitlistEntry(s, c) ==
    /\ HasRow(s, c)
    /\ c \in DOMAIN sql_class
    /\ sql_enrollment[c][s] > sql_class[c].max_enroll

remove_from_waitlist(s, c) ==
    IF s \notin sample_users \/ c \notin DOMAIN sql_class
    THEN /\ last' = Response("waitlist_drop", s, c, "not_found")
         /\ UNCHANGED <<dynamo, redis, FREEZE, sql, handlers, listing>>
    ELSE IF ~WaitlistEntry(s, c)
    THEN /\ last' = Response("waitlist_drop", s, c, "not_on_waitlist")
         /\ UNCHANGED <<dynamo, redis, FREEZE, sql, handlers, listing>>
    ELSE LET deleted == [sql_enrollment EXCEPT ![c] = Del(@, s)]
             after == reorder_placement(deleted, sql_class,
                                        sql_class[c].current_enroll,
                                        sql_enrollment[c][s], c)
         IN /\ sql_enrollment' = after.enrollment
            /\ sql_class' = after.class
            /\ sql_waitlist' = [x \in DOMAIN sql_waitlist |->
                                  IF x = s THEN sql_waitlist[x] - 1 ELSE sql_waitlist[x]]
            /\ last' = Response("waitlist_drop", s, c, "removed")
            /\ UNCHANGED <<dynamo, redis, FREEZE, handlers, listing>>

(***************************************************************************)
(* instructor_drop_class (enrollment_routes.py:801-874)                    *)
(***************************************************************************)
\* instructor_class rows: the instructor assigned to each class
instructor_class(i, c) == c \in Classes /\ i = InstructorOf(c)

instructor_drop_class(i, c, s) ==
    IF i \notin {InstructorOf(d) : d \in Classes} \/ s \notin DOMAIN sql_waitlist
    THEN /\ last' = Response("instructor_drop", s, c, "not_found")
         /\ UNCHANGED <<dynamo, redis, FREEZE, sql, handlers, listing>>
    ELSE IF ~instructor_class(i, c)
    THEN /\ last' = Response("instructor_drop", s, c, "not_assigned")
         /\ UNCHANGED <<dynamo, redis, FREEZE, sql, handlers, listing>>
    ELSE IF ~(HasRow(s, c) /\ c \in DOMAIN sql_class)
    THEN /\ last' = Response("instructor_drop", s, c, "not_enrolled")
         /\ UNCHANGED <<dynamo, redis, FREEZE, sql, handlers, listing>>
    ELSE LET deleted == [sql_enrollment EXCEPT ![c] = Del(@, s)]
             after == reorder_placement(deleted, sql_class,
                                        sql_class[c].current_enroll,
                                        sql_enrollment[c][s], c)
         IN /\ sql_enrollment' = after.enrollment
            /\ sql_class' = after.class
            /\ last' = Response("instructor_drop", s, c, "dropped")
            /\ UNCHANGED <<dynamo, redis, FREEZE, sql_waitlist, handlers, listing>>

(***************************************************************************)
(* Requests                                                                *)
(***************************************************************************)
\* the classes the requests of Spec name
RequestClasses == {1, 2, 3}

\* (student, class) of the enroll requests: the actors on the request
\* classes, an unknown student, an unknown class
EnrollRequests ==
    (Actors \X RequestClasses) \cup {<<NoStudent, 1>>, <<1, NoClass>>}

\* drop requests: the same, and the first seeded student of class 2
DropRequests == EnrollRequests \cup {<<SeedStudent(2, 1), 2>>}

\* (student, class) of the relational drops: seeded students at placements
\* 1, 31 and 32 of class 5 and 30 of class 2, and an unknown class
SqlRequests ==
    {<<SeedStudent(5, 1), 5>>, <<SeedStudent(5, SEED_MAX_ENROLL + 1), 5>>,
     <<SeedStudent(5, SEED_MAX_ENROLL + 2), 5>>, <<SeedStudent(2, SEED_MAX_ENROLL), 2>>,
     <<SeedStudent(5, 1), NoClass>>}

\* enroll requests that have appended to a roster so far
EnrollCalls ==
    LET RECURSIVE Sum(_)
        Sum(S) == IF S = {} THEN 0
                  ELSE LET c == CHOOSE x \in S : TRUE
                       IN (current_enroll[c] - sample_classes[c]) + Sum(S \ {c})
    IN Sum(RequestClasses)

\* rows deleted from table enrollment so far
SqlDrops ==
    LET RECURSIVE Sum(_)
        Sum(S) == IF S = {} THEN 0
                  ELSE LET c == CHOOSE x \in S : TRUE
                       IN (sample_classes[c] - Cardinality(DOMAIN sql_enrollment[c]))
                          + Sum(S \ {c})
    IN Sum(SqlClasses)

Writes == EnrollCalls + SqlDrops

Enroll ==
    /\ Writes < MaxWrites
    /\ \E r \in EnrollRequests : enroll_student_in_class(r[1], r[2])

Drop == \E r \in DropRequests : drop_student_from_class(r[1], r[2])

Freeze == freeze_automatic_enrollment

WaitlistDrop ==
    /\ Writes < MaxWrites
    /\ \E r \in SqlRequests : remove_from_waitlist(r[1], r[2])

InstructorDrop ==
    /\ Writes < MaxWrites
    /\ \E r \in SqlRequests, i \in {InstructorOf(5), InstructorOf(2)} :
          instructor_drop_class(i, r[2], r[1])

Next == Enroll \/ Drop \/ Freeze \/ WaitlistDrop \/ InstructorDrop

Spec == Init /\ [][Next]_vars

(***************************************************************************)
(* Concurrent requests.  The endpoints are plain def functions, which the  *)
(* framework runs on worker threads: the handlers of several requests      *)
(* interleave between their calls to the stores.  Each step below is one   *)
(* store call of enroll_student_in_class together with the local code up   *)
(* to the next call.                                                       *)
(***************************************************************************)
\* lines 212-232: get_item of the student and of the class; class_data is the
\* handler's copy of the class item (the sample users are never deleted, so
\* the two reads are one step)
GetItems(p) ==
    /\ handlers[p].pc = "idle"
    /\ \E r \in ProcRequests[p] :
          LET s == r[1]
              c == r[2]
          IN handlers' =
               [handlers EXCEPT ![p] =
                  IF NotFound(s, c)
                  THEN [@ EXCEPT !.pc = "done", !.student = s, !.class = c,
                                 !.result = "not_found"]
                  ELSE [@ EXCEPT !.pc = "check_enrolled", !.student = s, !.class = c,
                                 !.new_enrollment = current_enroll[c] + 1]]
    /\ UNCHANGED <<dynamo, redis, FREEZE, sql, last, listing>>

\* lines 234-246: the SELECT of the class and the test of its enrolled list
CheckEnrolled(p) ==
    /\ handlers[p].pc = "check_enrolled"
    /\ handlers' =
         [handlers EXCEPT ![p] =
            IF AlreadyEnrolled(@.student, @.class)
            THEN [@ EXCEPT !.pc = "done", !.result = "already_enrolled"]
            ELSE [@ EXCEPT !.pc = "set_current_enroll"]]
    /\ UNCHANGED <<dynamo, redis, FREEZE, sql, last, listing>>

\* lines 248-254: SET current_enroll = :new_enrollment
SetCurrentEnroll(p) ==
    /\ handlers[p].pc = "set_current_enroll"
    /\ current_enroll' =
         [current_enroll EXCEPT ![handlers[p].class] = handlers[p].new_enrollment]
    /\ handlers' = [handlers EXCEPT ![p].pc = "append_enrolled"]
    /\ UNCHANGED <<enrolled, dropped, waitlist_count, redis, FREEZE, sql, last, listing>>

\* lines 257-263: SET enrolled = list_append(enrolled, :student_id)
AppendEnrolled(p) ==
    /\ handlers[p].pc = "append_enrolled"
    /\ enrolled' = [enrolled EXCEPT ![handlers[p].class] = list_append(@, handlers[p].student)]
    /\ handlers' = [handlers EXCEPT ![p].pc = "select_dropped"]
    /\ UNCHANGED <<current_enroll, dropped, waitlist_count, redis, FREEZE, sql, last, listing>>

\* lines 266-275: the SELECT of the class; get_dropped is the handler's copy
\* of the dropped list, the student removed from it
SelectDropped(p) ==
    /\ handlers[p].pc = "select_dropped"
    /\ LET s == handlers[p].student
           get_dropped == dropped[handlers[p].class]
       IN handlers' =
            [handlers EXCEPT ![p] =
               IF In(s, get_dropped)
               THEN [@ EXCEPT !.pc = "set_dropped",
                              !.get_dropped = ListRemove(get_dropped, s)]
               ELSE [@ EXCEPT !.pc = "gate"]]
    /\ UNCHANGED <<dynamo, redis, FREEZE, sql, last, listing>>

\* lines 277-283: SET dropped = :dropped
SetDropped(p) ==
    /\ handlers[p].pc = "set_dropped"
    /\ dropped' = [dropped EXCEPT ![handlers[p].class] = handlers[p].get_dropped]
    /\ handlers' = [handlers EXCEPT ![p].pc = "gate"]
    /\ UNCHANGED <<current_enroll, enrolled, waitlist_count, redis, FREEZE, sql, last, listing>>

\* lines 285-291 and 298-303: the test of new_enrollment, of FREEZE and of
\* Waitlist.get_waitlist_count
Gate(p) ==
    /\ handlers[p].pc = "gate"
    /\ LET res == EnrollResult(handlers[p].new_enrollment,
                               max_enroll[handlers[p].class], FREEZE,
                               get_waitlist_count(handlers[p].student))
       IN handlers' =
            [handlers EXCEPT ![p] =
               IF res = "waitlisted"
               THEN [@ EXCEPT !.pc = "update_waitlist_count"]
               ELSE [@ EXCEPT !.pc = "done", !.result = res]]
    /\ UNCHANGED <<dynamo, redis, FREEZE, sql, last, listing>>

\* lines 292-297: SET waitlist_count = if_not_exists(waitlist_count, 0) + 1
UpdateWaitlistCount(p) ==
    /\ handlers[p].pc = "update_waitlist_count"
    /\ waitlist_count' = IncrementWaitlistCount(waitlist_count, handlers[p].student)
    /\ handlers' = [handlers EXCEPT ![p] = [@ EXCEPT !.pc = "done", !.result = "waitlisted"]]
    /\ UNCHANGED <<current_enroll, enrolled, dropped, redis, FREEZE, sql, last, listing>>

\* the full classes that student 2 has been waitlisted on by earlier enroll
\* requests, served one after the other
EarlierClasses == {2, 4}

\* the class and user items after those requests
ConcStart ==
    /\ current_enroll =
         [c \in Classes |-> sample_classes[c] + (IF c \in EarlierClasses THEN 1 ELSE 0)]
    /\ enrolled =
         [c \in Classes |-> IF c \in EarlierClasses
                            THEN Append(SeedEnrolled(c), 2) ELSE SeedEnrolled(c)]
    /\ dropped = [c \in Classes |-> SeedDropped(c)]
    /\ waitlist_count = Put(EmptyMap, 2, Cardinality(EarlierClasses))

InitConc ==
    /\ ConcStart
    /\ InitRedis
    /\ InitSql
    /\ FREEZE = FALSE
    /\ handlers = [p \in Procs |-> Idle]
    /\ last = NoRequest
    /\ listing = NoListing

NextConc ==
    \E p \in Procs :
        \/ GetItems(p)
        \/ CheckEnrolled(p)
        \/ SetCurrentEnroll(p)
        \/ AppendEnrolled(p)
        \/ SelectDropped(p)
        \/ SetDropped(p)
        \/ Gate(p)
        \/ UpdateWaitlistCount(p)

SpecConc == InitConc /\ [][NextConc]_vars

(***************************************************************************)
(* Enroll requests of one student, and nothing else: student 2, who is on  *)
(* no waitlist, enrolling in any of the sample classes, with the freeze    *)
(* flag toggled at any time.                                               *)
(***************************************************************************)
EnrollOnly == \E c \in Classes : enroll_student_in_class(2, c)

NextEnroll == EnrollOnly \/ Freeze

SpecEnroll == Init /\ [][NextEnroll]_vars

(***************************************************************************)
(* get_available_classes (enrollment_routes.py:89-183), a read of the      *)
(* class table.  The answer is kept in listing; the instructor's name and  *)
(* the descriptive attributes of a class are left out.                     *)
(***************************************************************************)
\* the item of class c in the class table
ClassItem(c) ==
    [id |-> c, current_enroll |-> current_enroll[c], max_enroll |-> max_enroll[c]]

\* lines 135-148: the WHERE clause of the query chosen by waitlist_count
ListingShows(count, item) ==
    IF count >= MAX_WAITLIST
    THEN item.current_enroll <= item.max_enroll
    ELSE item.current_enroll < LISTING_BOUND

\* lines 160-181: the Class_Enroll instance built from an item
Class_Enroll(item) ==
    IF item.current_enroll > item.max_enroll
    THEN [id |-> item.id, max_enroll |-> item.max_enroll,
          current_enroll |-> item.max_enroll,
          current_waitlist |-> item.current_enroll - item.max_enroll]
    ELSE [id |-> item.id, max_enroll |-> item.max_enroll,
          current_enroll |-> item.current_enroll,
          current_waitlist |-> 0]

\* the handler, for student s and a class table holding items
get_available_classes(s, items) ==
    IF s \notin sample_users
    THEN /\ last' = Response("listing", s, NoClass, "not_found")
         /\ UNCHANGED <<dynamo, redis, FREEZE, sql, handlers, listing>>
    ELSE LET waitlist_count_local == get_waitlist_count(s)
         IN /\ listing' =
                 [student |-> s, waitlist_count |-> waitlist_count_local,
                  Classes |-> {Class_Enroll(item) :
                                 item \in {i \in items : ListingShows(waitlist_count_local, i)}}]
            /\ last' = Response("listing", s, NoClass, "listed")
            /\ UNCHANGED <<dynamo, redis, FREEZE, sql, handlers>>

\* the class table of the current state
ClassTable == {ClassItem(c) : c \in Classes}

\* class tables of one class, created with a max_enroll of 10, 30 or 40 and
\* filled to around max_enroll, max_enroll + 15 and 45
DrawnMaxEnroll == {10, 30, 40}

DrawnTables ==
    UNION {{ {[id |-> Len(sample_classes) + 1, current_enroll |-> n, max_enroll |-> m]} :
               n \in {m - 1, m, m + 1, m + WAITLIST_BOUND - 1, m + WAITLIST_BOUND,
                      LISTING_BOUND - 1, LISTING_BOUND} } :
           m \in DrawnMaxEnroll}

\* students who ask for the listing: the seed's test student (on
\* MAX_WAITLIST waitlists), student 2 (on none), and an unknown student
ListingStudents == {1, 2, NoStudent}

Listing ==
    \E s \in ListingStudents, items \in {ClassTable} \cup DrawnTables :
        get_available_classes(s, items)

NextListing == Listing \/ Drop

SpecListing == Init /\ [][NextListing]_vars

(***************************************************************************)
(* Listings and enroll requests served one after the other, with the       *)
(* freeze flag toggled at any time.                                        *)
(***************************************************************************)
NextAgree == Listing \/ Enroll \/ Freeze

SpecAgree == Init /\ [][NextAgree]_vars

(***************************************************************************)
(* An enroll request and a drop request in flight together, with a reader. *)
(* Each step of the drop is one store call of drop_student_from_class      *)
(* together with the local code up to the next call.                       *)
(***************************************************************************)
\* the handler that serves the enroll request, and the one that serves the
\* drop request
EnrollProc == 1
DropProc == 2

\* (student, class) of the drop request: the first seeded student of class 1
\* or of class 5 (the classes of the enroll requests of handler 1), the last
\* seeded student of class 1, or student 1, who is on neither roster
DropProcRequests ==
    {<<SeedStudent(1, 1), 1>>, <<SeedStudent(1, sample_classes[1]), 1>>,
     <<SeedStudent(5, 1), 5>>, <<1, 1>>}

\* lines 331-352: get_item of the student and of the class
DropGetItems(p) ==
    /\ handlers[p].pc = "idle"
    /\ \E r \in DropProcRequests :
          LET s == r[1]
              c == r[2]
          IN handlers' =
               [handlers EXCEPT ![p] =
                  IF NotFound(s, c)
                  THEN [@ EXCEPT !.pc = "done", !.student = s, !.class = c,
                                 !.result = "not_found"]
                  ELSE [@ EXCEPT !.pc = "drop_select", !.student = s, !.class = c]]
    /\ UNCHANGED <<dynamo, redis, FREEZE, sql, last, listing>>

\* lines 354-372: the SELECT of the class, is_student_on_waitlist, the test,
\* and student_enroll.remove(student_id) on the handler's copy of the list
DropSelect(p) ==
    /\ handlers[p].pc = "drop_select"
    /\ LET s == handlers[p].student
           check_enroll == enrolled[handlers[p].class]
       IN handlers' =
            [handlers EXCEPT ![p] =
               IF ~In(s, check_enroll) \/ is_student_on_waitlist(s, handlers[p].class)
               THEN [@ EXCEPT !.pc = "done", !.result = "not_enrolled"]
               ELSE [@ EXCEPT !.pc = "drop_set_enrolled",
                              !.student_enroll = ListRemove(check_enroll, s)]]
    /\ UNCHANGED <<dynamo, redis, FREEZE, sql, last, listing>>

\* lines 373-382: SET enrolled = :enrolled
DropSetEnrolled(p) ==
    /\ handlers[p].pc = "drop_set_enrolled"
    /\ enrolled' = [enrolled EXCEPT ![handlers[p].class] = handlers[p].student_enroll]
    /\ handlers' = [handlers EXCEPT ![p].pc = "drop_append_dropped"]
    /\ UNCHANGED <<current_enroll, dropped, waitlist_count, redis, FREEZE, sql, last, listing>>

\* lines 384-393: SET dropped = list_append(dropped, :student_id)
DropAppendDropped(p) ==
    /\ handlers[p].pc = "drop_append_dropped"
    /\ dropped' = [dropped EXCEPT ![handlers[p].class] = Append(@, handlers[p].student)]
    /\ handlers' = [handlers EXCEPT ![p] = [@ EXCEPT !.pc = "done", !.result = "dropped"]]
    /\ UNCHANGED <<current_enroll, enrolled, waitlist_count, redis, FREEZE, sql, last, listing>>

\* a reader: student 2 asks for the class listing.  The other reads, of the
\* relational tables, see the tables as the last commit left them: each
\* waitlist-drop is one transaction (db.commit() at line 549), one step here.
Read == get_available_classes(2, ClassTable)

NextMixed ==
    \/ GetItems(EnrollProc)
    \/ CheckEnrolled(EnrollProc)
    \/ SetCurrentEnroll(EnrollProc)
    \/ AppendEnrolled(EnrollProc)
    \/ SelectDropped(EnrollProc)
    \/ SetDropped(EnrollProc)
    \/ Gate(EnrollProc)
    \/ UpdateWaitlistCount(EnrollProc)
    \/ DropGetItems(DropProc)
    \/ DropSelect(DropProc)
    \/ DropSetEnrolled(DropProc)
    \/ DropAppendDropped(DropProc)
    \/ WaitlistDrop
    \/ Read

SpecMixed == Init /\ [][NextMixed]_vars

(***************************************************************************)
(* remove_class (enrollment_routes.py:937-954), with the relational drops. *)
(* The connection of get_db never turns foreign keys on, so the DELETE     *)
(* removes the row of table class and nothing else.                        *)
(***************************************************************************)
remove_class(c) ==
    IF c \notin DOMAIN sql_class
    THEN /\ last' = Response("remove_class", NoStudent, c, "not_found")
         /\ UNCHANGED <<dynamo, redis, FREEZE, sql, handlers, listing>>
    ELSE /\ sql_class' = Del(sql_class, c)
         /\ last' = Response("remove_class", NoStudent, c, "removed")
         /\ UNCHANGED <<dynamo, redis, FREEZE, sql_enrollment, sql_waitlist,
                        handlers, listing>>

\* the registrar removes a class of the class table, or names an unknown one
RemoveClass == \E c \in SqlClasses \cup {NoClass} : remove_class(c)

NextRemove == RemoveClass \/ WaitlistDrop \/ InstructorDrop

SpecRemove == Init /\ [][NextRemove]_vars

(***************************************************************************)
(* The writes of enrollment_redis.Waitlist, called one after the other on  *)
(* the Redis content of the seed.  Redis drops a sorted set or a hash that *)
(* has become empty.                                                       *)
(***************************************************************************)
\* m with key k set to v, or without key k when v is empty
PutOrDrop(m, k, v) == IF DOMAIN v = {} THEN Del(m, k) ELSE Put(m, k, v)

\* a new placement that is always the first
new_placement_First(zs) == 1

\* lines 21-29: one more than the highest score of the sorted set, 1 for an
\* empty one
new_placement(zs) ==
    IF DOMAIN zs # {}
    THEN (CHOOSE m \in {zs[x] : x \in DOMAIN zs} : \A x \in DOMAIN zs : zs[x] <= m) + 1
    ELSE 1

\* Waitlist.add_waitlists (enrollment_redis.py:14-35)
add_waitlists(class_id, student_id) ==
    LET zs == Get(class_waitlist, class_id, EmptyMap)
        np == new_placement(zs)
    IN /\ class_waitlist' = Put(class_waitlist, class_id, Put(zs, student_id, np))
       /\ student_waitlists' =
             Put(student_waitlists, student_id,
                 Put(Get(student_waitlists, student_id, EmptyMap), class_id, np))
       /\ last' = Response("add_waitlists", student_id, class_id, "added")
       /\ UNCHANGED <<dynamo, FREEZE, sql, handlers, listing>>

\* lines 57-60: the loop over remaining_students, from the hash h of the
\* removed student: each hset writes field other_student_id of that hash
RECURSIVE HsetRemaining(_, _, _)
HsetRemaining(h, remaining, zs) ==
    IF remaining = {} THEN h
    ELSE LET other_student_id == CHOOSE x \in remaining : TRUE
         IN HsetRemaining(Put(h, other_student_id, zs[other_student_id] - 1),
                          remaining \ {other_student_id}, zs)

\* Waitlist.remove_student_from_waitlists (enrollment_redis.py:38-60)
remove_student_from_waitlists(student_id, class_id) ==
    LET zs == Get(class_waitlist, class_id, EmptyMap)
    IN IF student_id \notin DOMAIN zs
       THEN /\ last' = Response("remove_student_from_waitlists", student_id, class_id,
                                "absent")
            /\ UNCHANGED <<dynamo, redis, FREEZE, sql, handlers, listing>>
       ELSE LET student_placement == zs[student_id]
                zrem == Del(zs, student_id)
                hdel == Del(Get(student_waitlists, student_id, EmptyMap), class_id)
                remaining_students ==
                    {x \in DOMAIN zrem : zrem[x] >= student_placement + 1}
                zadd == [x \in DOMAIN zrem |->
                           IF x \in remaining_students THEN zrem[x] - 1 ELSE zrem[x]]
            IN /\ class_waitlist' = PutOrDrop(class_waitlist, class_id, zadd)
               /\ student_waitlists' =
                     PutOrDrop(student_waitlists, student_id,
                               HsetRemaining(hdel, remaining_students, zrem))
               /\ last' = Response("remove_student_from_waitlists", student_id, class_id,
                                   "removed")
               /\ UNCHANGED <<dynamo, FREEZE, sql, handlers, listing>>

\* the class and the students of the calls: class 5, whose waitlist the seed
\* fills with its two seeded students above max_enroll and, behind them,
\* student 1 (who is on the waitlists of classes 2 and 4 as well)
RedisClasses == {5}
RedisStudents ==
    {1, SeedStudent(5, SEED_MAX_ENROLL + 1), SeedStudent(5, SEED_MAX_ENROLL + 2)}

\* add_waitlists for a student who is not on the waitlist of the class
RedisAdd ==
    \E c \in RedisClasses, s \in RedisStudents :
        /\ ~is_student_on_waitlist(s, c)
        /\ add_waitlists(c, s)

RedisRemove ==
    \E c \in RedisClasses, s \in RedisStudents : remove_student_from_waitlists(s, c)

NextRedis == RedisAdd \/ RedisRemove

SpecRedis == Init /\ [][NextRedis]_vars

(***************************************************************************)
(* Properties                                                              *)
(***************************************************************************)
\* the 1-based position of s in the roster of c, 0 for a student not on it
Position(s, c) == IF In(s, enrolled[c]) THEN IndexOf(s, enrolled[c]) ELSE 0

\* the classes that hold s at a position above max_enroll
WaitlistedIn(s) == {c \in Classes : Position(s, c) > max_enroll[c]}

\* the value of the user item's waitlist_count, 0 where it is not set
DynamoWaitlistCount(s) == Get(waitlist_count, s, 0)

\* an enroll request that got past the existence and already-enrolled tests
EnrollOutcomes == {"enrolled", "waitlisted", "max_waitlists", "freeze"}

\* C1: in every reachable state the placements of the occupants of each
\* class are exactly 1..(number of occupants), without gap or duplicate:
\* in the enrollment table that the waitlist-drop and the instructor-drop
\* renumber, in the enrolled list that enroll and drop write, and in the
\* class waitlists of Redis.
C1_PlacementsContiguous ==
    /\ \A c \in DOMAIN sql_enrollment :
          LET rows == sql_enrollment[c]
          IN /\ {rows[s] : s \in DOMAIN rows} = 1..Cardinality(DOMAIN rows)
             /\ \A s1, s2 \in DOMAIN rows : rows[s1] = rows[s2] => s1 = s2
    /\ \A c \in Classes :
          \* a list's positions are 1..Len: they are the placements of its
          \* students exactly when no student is on the list twice
          Cardinality(Range(enrolled[c])) = Len(enrolled[c])
    /\ \A c \in DOMAIN class_waitlist :
          LET scores == class_waitlist[c]
          IN {scores[s] : s \in DOMAIN scores} = 1..Cardinality(DOMAIN scores)

\* C1 witness: an instructor-drop of the student at placement 1 of class 5
\* has renumbered the class, after an enroll has appended to some roster
C1_Witness ==
    /\ last = Response("instructor_drop", SeedStudent(5, 1), 5, "dropped")
    /\ sql_enrollment[5][SeedStudent(5, SEED_MAX_ENROLL + 2)] = SEED_MAX_ENROLL + 1
    /\ EnrollCalls > 0

\* C2: in every reachable state, the initial one included, and for every
\* student, the waitlist count the enroll gate reads (get_waitlist_count)
\* equals the number of classes that hold the student at a position above
\* max_enroll.
C2_QuotaEqualsWaitlistedClasses ==
    \A s \in sample_users : get_waitlist_count(s) = Cardinality(WaitlistedIn(s))

\* C3: after any sequence of enroll requests of one student, the waitlist
\* counter that enroll increments for the student is at most MAX_WAITLIST.
C3_QuotaAtMostMax ==
    \A s \in sample_users : DynamoWaitlistCount(s) <= MAX_WAITLIST

\* C4: no waitlist counter of any student is ever negative, so no decrement
\* is ever applied to a counter that is 0: the waitlist table's counter that
\* the waitlist-drop decrements, the user item's counter that enroll
\* increments, and the count the gate reads.
C4_QuotaNeverNegative ==
    /\ \A s \in DOMAIN sql_waitlist : sql_waitlist[s] >= 0
    /\ \A s \in sample_users : DynamoWaitlistCount(s) >= 0 /\ get_waitlist_count(s) >= 0

\* C4 witness: a waitlist-drop has just taken a student's counter to 0
C4_Witness ==
    /\ last.op = "waitlist_drop" /\ last.result = "removed"
    /\ sql_waitlist[last.student] = 0

\* C5: an enroll of a student whose quota is MAX_WAITLIST into a full class
\* answers 'max waitlists' and leaves the class as it was: the student is not
\* on the roster, current_enroll and every quota are unchanged.
C5_QuotaRejectionChangesNothing ==
    [][\A s \in Actors, c \in Classes :
          ( /\ last' = Response("enroll", s, c, last'.result)
            /\ last'.result \in EnrollOutcomes
            /\ ~FREEZE
            /\ get_waitlist_count(s) >= MAX_WAITLIST
            /\ Len(enrolled[c]) >= max_enroll[c] )
          => ( /\ last'.result = "max_waitlists"
               /\ ~In(s, enrolled'[c])
               /\ enrolled'[c] = enrolled[c]
               /\ current_enroll'[c] = current_enroll[c]
               /\ waitlist_count' = waitlist_count
               /\ student_waitlists' = student_waitlists )]_vars

\* C6: with the freeze flag set, an enroll into a full class answers
\* 'administrative freeze' and leaves the roster, current_enroll and the
\* student's quota unchanged.
C6_FreezeRejectionChangesNothing ==
    [][\A s \in Actors, c \in Classes :
          ( /\ last' = Response("enroll", s, c, last'.result)
            /\ last'.result \in EnrollOutcomes
            /\ FREEZE
            /\ Len(enrolled[c]) >= max_enroll[c] )
          => ( /\ last'.result = "freeze"
               /\ enrolled'[c] = enrolled[c]
               /\ current_enroll'[c] = current_enroll[c]
               /\ waitlist_count' = waitlist_count
               /\ student_waitlists' = student_waitlists )]_vars

\* C7: an enroll into a class of n occupants answers Enrolled, with the
\* student's quota unchanged, exactly when the new position n + 1 is at most
\* max_enroll; the student who takes the last seat is Enrolled.
C7_EnrolledIffSeatFree ==
    [][\A s \in Actors, c \in Classes :
          ( /\ last' = Response("enroll", s, c, last'.result)
            /\ last'.result \in EnrollOutcomes )
          => ( /\ (last'.result = "enrolled") <=> (Len(enrolled[c]) + 1 <= max_enroll[c])
               /\ last'.result = "enrolled" => waitlist_count' = waitlist_count )]_vars

\* C8: with freeze unset, an enroll at a new position p above max_enroll is
\* admitted as Waitlisted when the quota is below MAX_WAITLIST and
\* p <= max_enroll + 15, and it is refused for capacity only when the quota
\* is MAX_WAITLIST or p > max_enroll + 15.
C8_WaitlistAdmission ==
    [][\A s \in Actors, c \in Classes :
          LET p == Len(enrolled[c]) + 1
          IN ( /\ last' = Response("enroll", s, c, last'.result)
               /\ last'.result \in EnrollOutcomes
               /\ ~FREEZE
               /\ p > max_enroll[c] )
             => ( /\ ( get_waitlist_count(s) < MAX_WAITLIST
                       /\ p <= max_enroll[c] + WAITLIST_BOUND )
                        => last'.result = "waitlisted"
                  /\ last'.result = "max_waitlists"
                        => ( \/ get_waitlist_count(s) >= MAX_WAITLIST
                             \/ p > max_enroll[c] + WAITLIST_BOUND ) )]_vars

\* the handlers that have answered
Done == {p \in Procs : handlers[p].pc = "done"}

\* C9: when N concurrent enroll requests of N distinct students on one
\* class with K < N free seats have all answered, exactly K answered
\* Enrolled, the others Waitlisted or a capacity rejection, and the roster
\* holds each student once, at contiguous positions.
C9_ConcurrentEnrollOutcome ==
    \A c \in Classes :
        LET K == max_enroll[c] - sample_classes[c]
            N == Cardinality(Procs)
        IN ( /\ Done = Procs
             /\ \A p \in Procs : handlers[p].class = c
             /\ \A p, q \in Procs : handlers[p].student = handlers[q].student => p = q
             /\ 0 <= K /\ K < N )
           => ( /\ Cardinality({p \in Procs : handlers[p].result = "enrolled"}) = K
                /\ \A p \in Procs : handlers[p].result \in EnrollOutcomes
                /\ Cardinality(Range(enrolled[c])) = Len(enrolled[c])
                /\ Len(enrolled[c]) = sample_classes[c] + N )

\* C10: when a student who holds MAX_WAITLIST - 1 waitlist positions (on
\* classes other than the two requested) issues two concurrent enroll requests
\* on two different full classes, at most one of the two is admitted to a
\* waitlist and the student's waitlist counter does not end above MAX_WAITLIST.
C10_OneConcurrentAdmission ==
    \A p, q \in Procs :
        LET s == handlers[p].student
            requested == {handlers[p].class, handlers[q].class}
        IN ( /\ p # q
             /\ {p, q} \subseteq Done
             /\ handlers[q].student = s
             /\ handlers[p].class # handlers[q].class
             /\ \A c \in requested : sample_classes[c] >= max_enroll[c]
             /\ Cardinality(WaitlistedIn(s) \ requested) = MAX_WAITLIST - 1 )
           => ( /\ ~(handlers[p].result = "waitlisted" /\ handlers[q].result = "waitlisted")
                /\ DynamoWaitlistCount(s) <= MAX_WAITLIST )

\* C11: a drop of a student who holds a position of the roster at or below
\* max_enroll answers Dropped, and a second drop of the same (class, student)
\* right after it is rejected as not enrolled and changes no state; the same
\* for two instructor-drops in a row.
C11_DropTwice ==
    [][\A s \in sample_users, c \in Classes :
          /\ ( last' = Response("drop", s, c, last'.result) )
             => ( /\ Position(s, c) \in 1..max_enroll[c] => last'.result = "dropped"
                  /\ last = Response("drop", s, c, "dropped")
                        => ( /\ last'.result = "not_enrolled"
                             /\ UNCHANGED <<dynamo, redis, FREEZE, sql>> ) )
          /\ ( /\ last' = Response("instructor_drop", s, c, last'.result)
               /\ last = Response("instructor_drop", s, c, "dropped") )
             => ( /\ last'.result \in {"not_enrolled", "not_assigned"}
                  /\ UNCHANGED <<dynamo, redis, FREEZE, sql>> )]_vars

\* the student whose row of table enrollment has placement q in class c
SqlAt(c, q) == CHOOSE t \in DOMAIN sql_enrollment[c] : sql_enrollment[c][t] = q

\* C12: when a drop, or an instructor-drop, removes a student at a position
\* p <= max_enroll from a class whose roster extends beyond max_enroll, the
\* student formerly at max_enroll + 1 ends at max_enroll and that student's
\* waitlist counter is one lower after the transition, every other student's
\* counter being unchanged.
C12_PromotionDecrementsQuota ==
    [][/\ \A c \in Classes : \A s \in Range(enrolled[c]) :
             ( /\ last' = Response("drop", s, c, "dropped")
               /\ Position(s, c) \in 1..max_enroll[c]
               /\ Len(enrolled[c]) > max_enroll[c] )
             => LET t == enrolled[c][max_enroll[c] + 1]
                IN /\ enrolled'[c][max_enroll[c]] = t
                   /\ DynamoWaitlistCount(t)' = DynamoWaitlistCount(t) - 1
                   /\ get_waitlist_count(t)' = get_waitlist_count(t) - 1
                   /\ \A u \in (DOMAIN waitlist_count) \ {t} :
                         DynamoWaitlistCount(u)' = DynamoWaitlistCount(u)
       /\ \A c \in DOMAIN sql_class : \A s \in DOMAIN sql_enrollment[c] :
             ( /\ last' = Response("instructor_drop", s, c, "dropped")
               /\ sql_enrollment[c][s] <= sql_class[c].max_enroll
               /\ Cardinality(DOMAIN sql_enrollment[c]) > sql_class[c].max_enroll )
             => LET t == SqlAt(c, sql_class[c].max_enroll + 1)
                IN /\ sql_enrollment'[c][t] = sql_class[c].max_enroll
                   /\ sql_waitlist'[t] = sql_waitlist[t] - 1
                   /\ \A u \in (DOMAIN sql_waitlist) \ {t} :
                         sql_waitlist'[u] = sql_waitlist[u]]_vars


\* C13: an enroll of a student who is on the roster of the class, at any
\* position, is rejected as already enrolled and leaves the roster,
\* current_enroll, the dropped list and every waitlist counter as they were.
C13_AlreadyEnrolledRejected ==
    [][( /\ last'.op = "enroll"
         /\ last'.class \in Classes
         /\ In(last'.student, enrolled[last'.class]) )
       => ( /\ last'.result = "already_enrolled"
            /\ UNCHANGED <<dynamo, redis, FREEZE, sql>> )]_vars

\* C13 witness: a second enroll of a student whom an earlier enroll put on
\* the roster has been rejected
C13_Witness ==
    /\ last.op = "enroll" /\ last.result = "already_enrolled"
    /\ last.student \in Actors
    /\ Position(last.student, last.class) > sample_classes[last.class]

\* C14: an enroll or a drop that names a student or a class that does not
\* exist answers NotFound and changes no class item, no user item, no
\* waitlist and no table.
C14_UnknownIsNotFound ==
    [][( /\ last'.op \in {"enroll", "drop"}
         /\ (last'.student \notin sample_users \/ last'.class \notin Classes) )
       => ( /\ last'.result = "not_found"
            /\ UNCHANGED <<dynamo, redis, FREEZE, sql>> )]_vars

\* C14 witness: a request of an unknown student has been answered NotFound
\* after an enroll has written a roster
C14_Witness ==
    /\ last.op \in {"enroll", "drop"} /\ last.result = "not_found"
    /\ last.student = NoStudent
    /\ EnrollCalls > 0

\* C15: in every reachable state, the states reached while two enroll
\* requests of the same (class, student) are in flight included, no student
\* id is on a class's enrolled list twice.
C15_NoDuplicateOccupant ==
    \A c \in Classes : \A i, j \in DOMAIN enrolled[c] :
        enrolled[c][i] = enrolled[c][j] => i = j

\* C16: the listing returned to a student shows a class of the table exactly
\* when the student's waitlist count is at least MAX_WAITLIST and
\* current_enroll <= max_enroll, or the count is below MAX_WAITLIST and
\* current_enroll < max_enroll + 15, whatever the max_enroll of the class.
C16_ListingVisibility ==
    [][\A s \in ListingStudents \cap sample_users, items \in {ClassTable} \cup DrawnTables :
          get_available_classes(s, items)
          => \A item \in items :
                (Class_Enroll(item) \in listing'.Classes)
                <=> ( \/ /\ get_waitlist_count(s) >= MAX_WAITLIST
                         /\ item.current_enroll <= item.max_enroll
                      \/ /\ get_waitlist_count(s) < MAX_WAITLIST
                         /\ item.current_enroll < item.max_enroll + WAITLIST_BOUND )]_vars

\* the smaller and the larger of two numbers
Min(a, b) == IF a <= b THEN a ELSE b
Max(a, b) == IF a >= b THEN a ELSE b

\* C17: for every class of the table that a listing returns, the reported
\* current_enroll is min(number of students on the roster, max_enroll), the
\* reported waitlist total is max(that number - max_enroll, 0), and the two
\* sum to the number of students on the roster.
C17_ListingReportsOccupancy ==
    [][last'.op = "listing"
       => \A r \in listing'.Classes :
             r.id \in Classes
             => LET n == Len(enrolled[r.id])
                IN /\ r.current_enroll = Min(n, max_enroll[r.id])
                   /\ r.current_waitlist = Max(n - max_enroll[r.id], 0)
                   /\ r.current_enroll + r.current_waitlist = n]_vars

\* C18: a waitlist-drop or an instructor-drop that removes the row at
\* placement p of a class renumbers in the same transition: every row
\* formerly at q > p ends at q - 1, every row at q < p keeps q, no two rows
\* hold the same placement at any point of the renumbering pass, and the
\* class's current_enroll is one lower.
C18_RenumberAfterRemoval ==
    [][LET s == last'.student
           c == last'.class
       IN ( /\ \/ last'.op = "waitlist_drop" /\ last'.result = "removed"
               \/ last'.op = "instructor_drop" /\ last'.result = "dropped"
            /\ HasRow(s, c) )
          => LET rows == sql_enrollment[c]
                 p == rows[s]
             IN /\ DOMAIN sql_enrollment'[c] = (DOMAIN rows) \ {s}
                /\ \A t \in (DOMAIN rows) \ {s} :
                      sql_enrollment'[c][t] = IF rows[t] > p THEN rows[t] - 1 ELSE rows[t]
                /\ \A pass \in ReorderSteps(Del(rows, s), 1, sql_class[c].current_enroll, p) :
                      Cardinality({pass[t] : t \in DOMAIN pass}) = Cardinality(DOMAIN pass)
                /\ sql_class'[c].current_enroll = sql_class[c].current_enroll - 1]_vars

\* C18 witness: a waitlist-drop has removed the student at placement 31 of
\* class 5 and the student formerly at 32 is at 31
C18_Witness ==
    /\ last = Response("waitlist_drop", SeedStudent(5, SEED_MAX_ENROLL + 1), 5, "removed")
    /\ sql_enrollment[5][SeedStudent(5, SEED_MAX_ENROLL + 2)] = SEED_MAX_ENROLL + 1
    /\ sql_class[5].current_enroll = sample_classes[5] - 1

\* C19: whenever a waitlist-drop or an instructor-drop removes a student
\* whose placement is above max_enroll, that student's waitlist counter is
\* exactly one lower after the transition.
C19_WaitlistedRemovalDecrements ==
    [][\A c \in DOMAIN sql_class : \A s \in DOMAIN sql_enrollment[c] :
          ( /\ \/ last' = Response("waitlist_drop", s, c, "removed")
               \/ last' = Response("instructor_drop", s, c, "dropped")
            /\ sql_enrollment[c][s] > sql_class[c].max_enroll )
          => sql_waitlist'[s] = sql_waitlist[s] - 1]_vars

\* C20: an instructor-drop of a student of a class leaves the state a drop of
\* that student leaves: after either, answered as a success, the student is
\* off the roster, the students behind have moved up by one, current_enroll
\* of the class is one lower and the student is on the dropped list.
C20_InstructorDropAsDrop ==
    [][\A c \in Classes : \A s \in Range(enrolled[c]) :
          ( \/ last' = Response("drop", s, c, "dropped")
            \/ last' = Response("instructor_drop", s, c, "dropped") )
          => ( /\ enrolled'[c] = ListRemove(enrolled[c], s)
               /\ current_enroll'[c] = current_enroll[c] - 1
               /\ In(s, dropped'[c])
               /\ HasRow(s, c)
                    => ( /\ s \notin DOMAIN sql_enrollment'[c]
                         /\ sql_class'[c].current_enroll = sql_class[c].current_enroll - 1 ) )]_vars

\* C21: setting or clearing the freeze flag leaves every roster, every
\* current_enroll and every waitlist counter as they were; and while the flag
\* is set, an enroll whose new position (occupants + 1) is at most max_enroll
\* answers Enrolled, and a drop of a student who holds a position at or below
\* max_enroll answers Dropped.
C21_FreezeLeavesSeatsOpen ==
    [][/\ last'.op = "freeze" => UNCHANGED <<dynamo, redis, sql>>
       /\ ( /\ FREEZE
            /\ last'.op = "enroll"
            /\ last'.result \in EnrollOutcomes
            /\ Len(enrolled[last'.class]) + 1 <= max_enroll[last'.class] )
          => last'.result = "enrolled"
       /\ ( /\ FREEZE
            /\ last'.op = "drop"
            /\ last'.class \in Classes
            /\ Position(last'.student, last'.class) \in 1..max_enroll[last'.class] )
          => last'.result = "dropped"]_vars

\* C22: when an enroll of s1 and a drop of s2 on the same class have run
\* concurrently (s1 not on the roster and s2 on it when they started,
\* s1 # s2) and both have answered with a success, the roster of the class
\* holds s1 and does not hold s2, whatever the interleaving.
C22_ConcurrentEnrollDropKeepBoth ==
    LET e == handlers[EnrollProc]
        d == handlers[DropProc]
    IN ( /\ e.pc = "done" /\ e.result \in {"enrolled", "waitlisted"}
         /\ d.pc = "done" /\ d.result = "dropped"
         /\ e.class = d.class
         /\ e.student # d.student
         /\ ~In(e.student, SeedEnrolled(e.class))
         /\ In(d.student, SeedEnrolled(d.class)) )
       => ( /\ In(e.student, enrolled[e.class])
            /\ ~In(d.student, enrolled[e.class]) )

\* C23: a reader never observes the middle of a request in flight: a class
\* listing never reports an occupancy of a class (seats taken plus waitlist
\* total) that differs from the seed's while the roster of the class is still
\* the seed's, and the enrollment table and the class waitlists that a
\* waitlist query reads never hold a placement twice or miss one.
C23_ReaderSeesNoIntermediateState ==
    [][( /\ handlers' = handlers
         /\ last'.op = "listing" )
       => ( /\ \A r \in listing'.Classes :
                  ( /\ r.id \in Classes
                    /\ r.current_enroll + r.current_waitlist # sample_classes[r.id] )
                  => enrolled[r.id] # SeedEnrolled(r.id)
            /\ \A c \in DOMAIN sql_enrollment :
                  {sql_enrollment[c][s] : s \in DOMAIN sql_enrollment[c]}
                     = 1..Cardinality(DOMAIN sql_enrollment[c])
            /\ \A c \in DOMAIN class_waitlist :
                  {class_waitlist[c][s] : s \in DOMAIN class_waitlist[c]}
                     = 1..Cardinality(DOMAIN class_waitlist[c]) )]_vars

\* C24: when the concurrent enroll requests have all answered, and k of them,
\* by k distinct students, were on the same class and appended their student
\* to its roster, the class's current_enroll is exactly k above its value
\* before the requests, whatever the interleaving.
C24_NoLostCounterUpdate ==
    \A c \in Classes :
        LET appended == {p \in Procs : /\ handlers[p].class = c
                                       /\ handlers[p].result \in EnrollOutcomes}
            before == sample_classes[c] + (IF c \in EarlierClasses THEN 1 ELSE 0)
        IN ( /\ Done = Procs
             /\ \A p, q \in appended : handlers[p].student = handlers[q].student => p = q )
           => current_enroll[c] = before + Cardinality(appended)

\* C25: in every state reached by enroll, drop, waitlist-drop and
\* instructor-drop requests served one after the other, the stored
\* current_enroll of each class equals the number of students on its roster:
\* in the class items, and in the class table against the enrollment rows.
C25_CurrentEnrollIsOccupantCount ==
    /\ \A c \in Classes : current_enroll[c] = Len(enrolled[c])
    /\ \A c \in DOMAIN sql_class :
          sql_class[c].current_enroll = Cardinality(DOMAIN sql_enrollment[c])

\* C26: an enroll that admits a student to a waitlist raises by exactly 1 the
\* waitlist count that the gate of the student's next enroll reads
\* (get_waitlist_count), and the counter it increments is that same count.
C26_AdmissionRaisesGateCount ==
    [][\A s \in Actors :
          ( /\ last'.op = "enroll"
            /\ last'.student = s
            /\ last'.result = "waitlisted" )
          => ( /\ get_waitlist_count(s)' = get_waitlist_count(s) + 1
               /\ get_waitlist_count(s)' = DynamoWaitlistCount(s)' )]_vars

\* C27: the listing and enroll agree: when a student has just been returned a
\* listing that shows a class, the student is not on the roster of that class
\* and the freeze flag is unset, the student's enroll in that class, served
\* next, answers Enrolled or Waitlisted and never a capacity rejection.
C27_ListedClassAdmits ==
    [][( /\ last.op = "listing" /\ last.result = "listed"
         /\ last'.op = "enroll"
         /\ last'.student = listing.student
         /\ last'.class \in Classes
         /\ Class_Enroll(ClassItem(last'.class)) \in listing.Classes
         /\ ~In(last'.student, enrolled[last'.class])
         /\ ~FREEZE )
       => last'.result \in {"enrolled", "waitlisted"}]_vars

\* list new, from position j on, is list old, from position i on, with some
\* students taken out and followed by students who are not on old: the
\* students on both lists are in the same order on both, and the students
\* who joined are behind them
RECURSIVE KeepsOrder(_, _, _, _)
KeepsOrder(old, new, i, j) ==
    IF i > Len(old)
    THEN \A k \in j..Len(new) : ~In(new[k], old)
    ELSE IF j <= Len(new) /\ old[i] = new[j]
         THEN KeepsOrder(old, new, i + 1, j + 1)
         ELSE KeepsOrder(old, new, i + 1, j)

\* C28: the order of a roster is the order of joining, across any sequence of
\* requests: after a request the roster of a class is the students who stay,
\* in the order they had, followed by the students who join; and in the
\* enrollment table every row that stays has moved up by the number of
\* removed rows that were ahead of it, so that no two rows that stay swap.
C28_WaitlistOrderIsFifo ==
    [][LET c == last'.class
       IN /\ ( /\ last'.op \in {"enroll", "drop"}
               /\ c \in Classes
               /\ enrolled'[c] # enrolled[c] )
             => KeepsOrder(enrolled[c], enrolled'[c], 1, 1)
          /\ ( /\ last'.op \in {"waitlist_drop", "instructor_drop"}
               /\ c \in DOMAIN sql_enrollment
               /\ sql_enrollment'[c] # sql_enrollment[c] )
             => LET removed == (DOMAIN sql_enrollment[c]) \ DOMAIN sql_enrollment'[c]
                IN /\ DOMAIN sql_enrollment'[c] \subseteq DOMAIN sql_enrollment[c]
                   /\ \A a \in DOMAIN sql_enrollment'[c] :
                         sql_enrollment'[c][a] =
                            sql_enrollment[c][a]
                            - Cardinality({r \in removed :
                                  sql_enrollment[c][r] < sql_enrollment[c][a]})]_vars

\* C28 witness: the first student of class 2 has dropped and student 1 has
\* enrolled behind the students who stayed, who have all moved up by one
C28_Witness ==
    /\ ~In(SeedStudent(2, 1), enrolled[2])
    /\ Position(SeedStudent(2, 2), 2) = 1
    /\ Position(1, 2) = sample_classes[2]

\* C29: an enroll that answers Enrolled or Waitlisted on a class whose roster
\* holds n students puts the student at position n + 1 of the roster and
\* leaves every student who was on the roster at the position they had.
C29_EnrollAppendsAtEnd ==
    [][( /\ last'.op = "enroll"
         /\ last'.result \in {"enrolled", "waitlisted"} )
       => LET c == last'.class
              n == Len(enrolled[c])
          IN /\ Len(enrolled'[c]) = n + 1
             /\ enrolled'[c][n + 1] = last'.student
             /\ \A i \in 1..n : enrolled'[c][i] = enrolled[c][i]]_vars

\* C29 witness: student 2 has been admitted to class 2 after its first
\* student dropped, at position 30 of a roster whose current_enroll is 31
C29_Witness ==
    /\ last = Response("enroll", 2, 2, "waitlisted")
    /\ ~In(SeedStudent(2, 1), enrolled[2])
    /\ Position(2, 2) = sample_classes[2]
    /\ current_enroll[2] = sample_classes[2] + 1

\* C30: after every removal of a student from a class that is answered as a
\* success, by drop, by waitlist-drop or by instructor-drop, the student is
\* on the dropped list of the class.
C30_RemovalIsRecorded ==
    [][( \/ last'.op \in {"drop", "instructor_drop"} /\ last'.result = "dropped"
         \/ last'.op = "waitlist_drop" /\ last'.result = "removed" )
       => In(last'.student, dropped'[last'.class])]_vars

\* C31: in every state reached by requests served one after the other, no
\* student is both on the roster of a class and on its dropped list: a drop
\* has moved its student from the roster to the dropped list, and an enroll
\* that has put its student on the roster has left no entry of that student
\* on the dropped list.
C31_OccupantNotDropped ==
    /\ \A c \in Classes : \A x \in Range(dropped[c]) : ~In(x, enrolled[c])
    /\ (last.op = "drop" /\ last.result = "dropped")
          => /\ In(last.student, dropped[last.class])
             /\ ~In(last.student, enrolled[last.class])
    /\ (last.op = "enroll" /\ last.result \in EnrollOutcomes)
          => /\ In(last.student, enrolled[last.class])
             /\ ~In(last.student, dropped[last.class])

\* C31 witness: student 1 has enrolled in class 1, dropped it and enrolled
\* again, and the dropped list of the class is the seed's again
C31_Witness ==
    /\ last.op = "enroll" /\ last.student = 1 /\ last.class = 1
    /\ last.result \in EnrollOutcomes
    /\ current_enroll[1] = sample_classes[1] + 2
    /\ Len(enrolled[1]) = sample_classes[1] + 1
    /\ dropped[1] = SeedDropped(1)

\* C32: a drop requested for a student who is on the waitlist of the class,
\* that is, who holds a position of its roster above max_enroll or is in its
\* class waitlist of Redis, is rejected as not enrolled and leaves the roster,
\* current_enroll, the dropped list and the waitlists as they were.
C32_WaitlistedDropRejected ==
    [][( /\ last'.op = "drop"
         /\ last'.student \in sample_users
         /\ last'.class \in Classes
         /\ \/ Position(last'.student, last'.class) > max_enroll[last'.class]
            \/ is_student_on_waitlist(last'.student, last'.class) )
       => ( /\ last'.result = "not_enrolled"
            /\ UNCHANGED <<dynamo, redis, sql>> )]_vars

\* C33: after remove_class has deleted a class, no row of table enrollment
\* and no class waitlist is left for it, and every student who held a
\* placement above its max_enroll has a waitlist counter one lower than
\* before, so that no counter still counts a slot in the deleted class.
C33_RemoveClassCascades ==
    [][(last'.op = "remove_class" /\ last'.result = "removed")
       => LET c == last'.class
          IN /\ c \notin DOMAIN sql_enrollment' \/ DOMAIN sql_enrollment'[c] = {}
             /\ c \notin DOMAIN class_waitlist'
             /\ \A s \in DOMAIN sql_enrollment[c] :
                   sql_enrollment[c][s] > sql_class[c].max_enroll
                   => sql_waitlist'[s] = sql_waitlist[s] - 1]_vars

\* C34: every call of the freeze endpoint flips the flag, the message it
\* returns names the value the flag has after the call ('frozen' for set,
\* 'unfrozen' for unset), and the second of two calls in a row restores the
\* value the flag had before the first.
C34_FreezeToggles ==
    [][last'.op = "freeze"
       => ( /\ FREEZE' = ~FREEZE
            /\ last'.result = (IF FREEZE' THEN "frozen" ELSE "unfrozen")
            /\ last.op = "freeze" => FREEZE' = (last.result = "unfrozen") )]_vars

\* C34 witness: a later call has cleared the flag that an earlier call set,
\* after an enroll has been admitted to a waitlist
C34_Witness ==
    /\ last = Response("freeze", NoStudent, NoClass, "unfrozen")
    /\ ~FREEZE
    /\ DynamoWaitlistCount(2) > 0

\* C35: an enroll, a drop, a waitlist-drop or an instructor-drop that names
\* class A leaves every other class B as it was: B's roster, current_enroll
\* and dropped list, B's rows of table enrollment with their placements and
\* B's row of table class, and B's class waitlist.
C35_OtherClassesUntouched ==
    [][last'.op \in {"enroll", "drop", "waitlist_drop", "instructor_drop"}
       => LET A == last'.class
          IN /\ IF A \in Classes
                THEN /\ enrolled' = [enrolled EXCEPT ![A] = enrolled'[A]]
                     /\ current_enroll' = [current_enroll EXCEPT ![A] = current_enroll'[A]]
                     /\ dropped' = [dropped EXCEPT ![A] = dropped'[A]]
                ELSE UNCHANGED <<enrolled, current_enroll, dropped>>
             /\ \A B \in (DOMAIN sql_enrollment) \ {A} :
                   /\ B \in DOMAIN sql_enrollment'
                   /\ sql_enrollment'[B] = sql_enrollment[B]
             /\ \A B \in (DOMAIN sql_class) \ {A} :
                   /\ B \in DOMAIN sql_class'
                   /\ sql_class'[B] = sql_class[B]
             /\ \A B \in (DOMAIN class_waitlist) \ {A} :
                   /\ B \in DOMAIN class_waitlist'
                   /\ class_waitlist'[B] = class_waitlist[B]]_vars

\* C35 witness: the instructor of class 5 has dropped its first student,
\* class 5 is renumbered and the rows of class 2 are the seed's
C35_Witness ==
    /\ last = Response("instructor_drop", SeedStudent(5, 1), 5, "dropped")
    /\ sql_enrollment[5][SeedStudent(5, 2)] = 1
    /\ sql_enrollment[2] = sample_enrollments(2)
    /\ sql_class[2].current_enroll = sample_classes[2]

\* C36: after any sequence of add_waitlists calls, each for a student who is
\* not on the waitlist of the class, and remove_student_from_waitlists calls,
\* the placements of each class waitlist are exactly 1..k for its k members;
\* an added member gets placement k + 1 (1 on an empty waitlist), and a
\* removal lowers by one every placement behind the removed one and leaves
\* the others.
C36_RedisPlacementsContiguous ==
    [][LET c == last'.class
           s == last'.student
           zs == Get(class_waitlist, c, EmptyMap)
           zs2 == Get(class_waitlist', c, EmptyMap)
       IN /\ \A d \in DOMAIN class_waitlist' :
                {class_waitlist'[d][x] : x \in DOMAIN class_waitlist'[d]}
                   = 1..Cardinality(DOMAIN class_waitlist'[d])
          /\ last'.op = "add_waitlists"
                => /\ DOMAIN zs2 = (DOMAIN zs) \cup {s}
                   /\ zs2[s] = Cardinality(DOMAIN zs) + 1
                   /\ \A x \in DOMAIN zs : zs2[x] = zs[x]
          /\ (last'.op = "remove_student_from_waitlists" /\ last'.result = "removed")
                => /\ DOMAIN zs2 = (DOMAIN zs) \ {s}
                   /\ \A x \in DOMAIN zs2 :
                         zs2[x] = IF zs[x] > zs[s] THEN zs[x] - 1 ELSE zs[x]]_vars

\* C36 witness: the first member of the waitlist of class 5 has been removed
\* and added again: it is now the last of three, behind the two who moved up
C36_Witness ==
    /\ last = Response("add_waitlists", SeedStudent(5, SEED_MAX_ENROLL + 1), 5, "added")
    /\ class_waitlist[5][SeedStudent(5, SEED_MAX_ENROLL + 1)] = 3
    /\ class_waitlist[5][SeedStudent(5, SEED_MAX_ENROLL + 2)] = 1
    /\ class_waitlist[5][1] = 2

\* C37: the two Redis indexes agree: the map of a student holds class c with
\* placement p exactly when the student is a member of the waitlist of class
\* c with placement p; in particular, after a removal the own map of every
\* remaining student shows the reordered placement.
C37_RedisIndexesAgree ==
    \A s \in DOMAIN student_waitlists
                \cup UNION {DOMAIN class_waitlist[c] : c \in DOMAIN class_waitlist} :
       LET h == Get(student_waitlists, s, EmptyMap)
       IN \A c \in DOMAIN class_waitlist \cup DOMAIN h :
             LET zs == Get(class_waitlist, c, EmptyMap)
             IN /\ c \in DOMAIN h <=> s \in DOMAIN zs
                /\ c \in DOMAIN h => h[c] = zs[s]

\* C38: get_waitlist_count(s) is the number of classes c for which
\* is_student_on_waitlist(s, c) holds; removing student s from a waitlist
\* with remove_student_from_waitlists lowers get_waitlist_count(s) by exactly
\* one and changes the count of no other student.
C38_CountIsMembershipCount ==
    [][/\ \A s \in RedisStudents :
             get_waitlist_count(s)'
                = Cardinality({c \in DOMAIN class_waitlist' : s \in DOMAIN class_waitlist'[c]})
       /\ (last'.op = "remove_student_from_waitlists" /\ last'.result = "removed")
             => \A s \in RedisStudents :
                   get_waitlist_count(s)'
                      = IF s = last'.student THEN get_waitlist_count(s) - 1
                                             ELSE get_waitlist_count(s)]_vars
=============================================================================
